---- MODULE Spec2Model ----
(***************************************************************************)
(* A model of audio_encoders_pytorch/modules.py: the shape arithmetic of   *)
(* the resample ops, the Patcher / Unpatcher reshapes, the Encoder1d /     *)
(* Decoder1d / AutoEncoder1d forward passes with their bottlenecks, the    *)
(* STFT channel stacking and the Discriminator1d loss.                     *)
(*                                                                         *)
(* A tensor is modelled by its shape (b, c, t) and, where the claim is     *)
(* about contents, by the position every element came from.  A forward     *)
(* pass that raises leaves err # "none".                                   *)
(***************************************************************************)
EXTENDS Integers, Sequences, FiniteSets, TLC

VARIABLES
    pc,     \* position of the driving program
    args,   \* the constructor arguments
    mod,    \* the constructed module(s)
    x,      \* the tensor handed to the next call
    flow,   \* the tensors handed from module to module by the calls so far
    out,    \* the value returned by the last forward call
    info,   \* the info mapping returned by the last forward call
    err     \* "none", or the exception that ended construction / forward

vars == <<pc, args, mod, x, flow, out, info, err>>

----------------------------------------------------------------------------
(* Bounds of the model *)

MaxFactor == 5
MaxKernelMultiplier == 4
MaxLen == 20
MaxOps == 2

----------------------------------------------------------------------------
(* Arithmetic helpers *)

RECURSIVE Prod(_)
Prod(s) == IF s = <<>> THEN 1 ELSE Head(s) * Prod(Tail(s))

Reverse(s) == [i \in 1..Len(s) |-> s[Len(s) + 1 - i]]

Last(s) == s[Len(s)]

----------------------------------------------------------------------------
(* torch.nn.Conv1d / ConvTranspose1d: a layer is a record of its           *)
(* hyper-parameters, applying it maps the time length by torch's formula   *)
(* (dilation 1).                                                           *)

Conv1d(in_channels, out_channels, kernel_size, stride, padding) ==
    [type |-> "Conv1d", in_channels |-> in_channels, out_channels |-> out_channels,
     kernel_size |-> kernel_size, stride |-> stride, padding |-> padding,
     output_padding |-> 0]

ConvTranspose1d(in_channels, out_channels, kernel_size, stride, padding, output_padding) ==
    [type |-> "ConvTranspose1d", in_channels |-> in_channels,
     out_channels |-> out_channels, kernel_size |-> kernel_size, stride |-> stride,
     padding |-> padding, output_padding |-> output_padding]

\* floor((L + 2*padding - (kernel_size - 1) - 1) / stride) + 1
Conv1dLen(layer, L) ==
    ((L + 2 * layer.padding - (layer.kernel_size - 1) - 1) \div layer.stride) + 1

\* (L - 1)*stride - 2*padding + (kernel_size - 1) + output_padding + 1
ConvTranspose1dLen(layer, L) ==
    (L - 1) * layer.stride - 2 * layer.padding + (layer.kernel_size - 1)
        + layer.output_padding + 1

LayerLen(layer, L) ==
    IF layer.type = "Conv1d" THEN Conv1dLen(layer, L) ELSE ConvTranspose1dLen(layer, L)

\* A tensor: its shape [b, c, t], the modules it went through (ops) and the
\* exception raised on the way to it ("none" when there is a tensor at all).
Tensor(b, c, t) == [b |-> b, c |-> c, t |-> t, ops |-> <<>>, error |-> "none"]

Raise(e) == [b |-> 0, c |-> 0, t |-> 0, ops |-> <<>>, error |-> e]

Tag(t, name) == IF t.error = "none" THEN [t EXCEPT !.ops = Append(@, name)] ELSE t

\* A convolution raises when the input's channel count is not its in_channels,
\* when the padded input is shorter than the kernel, and a transposed one when
\* output_padding is not smaller than the stride.
LayerAccepts(layer, t) ==
    /\ t.c = layer.in_channels
    /\ t.t >= 1
    /\ layer.type = "Conv1d" => t.t + 2 * layer.padding >= layer.kernel_size
    /\ layer.type = "ConvTranspose1d" => layer.output_padding < layer.stride

LayerApply(layer, t) ==
    IF t.error # "none" THEN t
    ELSE IF layer.type = "Identity" THEN t
    ELSE IF ~LayerAccepts(layer, t) THEN Raise("RuntimeError")
    ELSE [t EXCEPT !.c = layer.out_channels, !.t = LayerLen(layer, t.t)]

----------------------------------------------------------------------------
(* Downsample1d / Upsample1d *)

Downsample1dAssertOff(kernel_multiplier) == kernel_multiplier % 2 \in {0, 1}

\* assert kernel_multiplier % 2 == 0, "Kernel multiplier must be even"
Downsample1dAssert(kernel_multiplier) == kernel_multiplier % 2 = 0

Downsample1dOddPadding(in_channels, out_channels, factor, kernel_multiplier) ==
    Conv1d(in_channels, out_channels, factor * kernel_multiplier + 1, factor,
           factor * (kernel_multiplier \div 2) + 1)

Downsample1d(in_channels, out_channels, factor, kernel_multiplier) ==
    Conv1d(in_channels, out_channels, factor * kernel_multiplier + 1, factor,
           factor * (kernel_multiplier \div 2))

Upsample1dNoOutputPadding(in_channels, out_channels, factor) ==
    IF factor = 1
    THEN Conv1d(in_channels, out_channels, 3, 1, 1)
    ELSE ConvTranspose1d(in_channels, out_channels, factor * 2, factor,
                         (factor \div 2) + (factor % 2), 0)

Upsample1d(in_channels, out_channels, factor) ==
    IF factor = 1
    THEN Conv1d(in_channels, out_channels, 3, 1, 1)
    ELSE ConvTranspose1d(in_channels, out_channels, factor * 2, factor,
                         (factor \div 2) + (factor % 2), factor % 2)

----------------------------------------------------------------------------
(* Specification SpecResample: a program that builds resample layers and   *)
(* applies them one after the other to a signal.                           *)
(*   args : factor, kernel_multiplier                                      *)
(*   mod  : the layers built so far, with the name of their constructor    *)
(*   flow : the signal before and after every applied layer                *)

InitResample ==
    /\ pc = "idle"
    /\ args \in [factor : 1..MaxFactor, kernel_multiplier : 1..MaxKernelMultiplier]
    /\ \E L \in 1..MaxLen : x = Tensor(1, 1, L)
    /\ flow = <<x>>
    /\ mod = <<>>
    /\ out = <<>>
    /\ info = <<>>
    /\ err = "none"

\* layer = Downsample1d(1, 1, factor, kernel_multiplier)
MakeDownsample ==
    /\ pc = "idle"
    /\ Len(mod) < MaxOps
    /\ IF Downsample1dAssert(args.kernel_multiplier)
       THEN /\ mod' = Append(mod, [name |-> "Downsample1d",
                                   layer |-> Downsample1d(1, 1, args.factor,
                                                          args.kernel_multiplier)])
            /\ pc' = "built"
            /\ err' = err
       ELSE /\ pc' = "ctor_error"
            /\ err' = "AssertionError"
            /\ mod' = mod
    /\ UNCHANGED <<args, x, flow, out, info>>

\* layer = Upsample1d(1, 1, factor)
MakeUpsample ==
    /\ pc = "idle"
    /\ Len(mod) < MaxOps
    /\ mod' = Append(mod, [name |-> "Upsample1d", layer |-> Upsample1d(1, 1, args.factor)])
    /\ pc' = "built"
    /\ UNCHANGED <<args, x, flow, out, info, err>>

\* x = layer(x)
ApplyResample ==
    /\ pc = "built"
    /\ LET y == LayerApply(Last(mod).layer, x) IN
       IF y.error = "none"
       THEN /\ x' = y
            /\ flow' = Append(flow, y)
            /\ pc' = "idle"
            /\ err' = err
       ELSE /\ pc' = "error"
            /\ err' = y.error
            /\ UNCHANGED <<x, flow>>
    /\ UNCHANGED <<args, mod, out, info>>

NextResample == MakeDownsample \/ MakeUpsample \/ ApplyResample

SpecResample == InitResample /\ [][NextResample]_vars

ResampleOps == [i \in 1..Len(mod) |-> mod[i].name]

\* C1: for every factor >= 1 and every length L that is a multiple of
\* factor, Downsample1d(factor) with the default kernel_multiplier 2 yields
\* length L / factor, Upsample1d(factor) yields factor times its input
\* length, and Downsample1d followed by Upsample1d yields exactly L again.
C1_ResampleLengths ==
    (pc = "idle" /\ args.kernel_multiplier = 2) =>
        /\ \A i \in 1..Len(mod) :
              /\ (mod[i].name = "Upsample1d") => flow[i + 1].t = args.factor * flow[i].t
              /\ (mod[i].name = "Downsample1d" /\ flow[i].t % args.factor = 0)
                    => flow[i + 1].t * args.factor = flow[i].t
        /\ (ResampleOps = <<"Downsample1d", "Upsample1d">> /\ flow[1].t % args.factor = 0)
              => flow[3].t = flow[1].t

C1_Witness ==
    /\ pc = "idle"
    /\ args.kernel_multiplier = 2
    /\ args.factor = 3
    /\ ResampleOps = <<"Downsample1d", "Upsample1d">>
    /\ flow[1].t = 9
    /\ flow[2].t = 3
    /\ flow[3].t = 9

----------------------------------------------------------------------------
(* Helpers of utils.py used by the modules *)

None == 0

exists(v) == v # None

default(v, d) == IF exists(v) THEN v ELSE d

prod(s) == Prod(s)

\* prefix_dict(prefix, d): every key of d with the prefix put before it.  A key
\* is the sequence of its parts: <<"encoder", "xs">> stands for encoder_xs.
prefix_dict(prefix, d) ==
    [k \in {<<prefix>> \o k0 : k0 \in DOMAIN d} |-> d[Tail(k)]]

\* {**a, **b}
Merge(a, b) ==
    [k \in (DOMAIN a) \cup (DOMAIN b) |-> IF k \in DOMAIN b THEN b[k] ELSE a[k]]

EmptyDict == [k \in {} |-> 0]

Min(a, b) == IF a <= b THEN a ELSE b

\* The first exception raised by a sequence of constructions, "none" if none.
RECURSIVE FirstError(_)
FirstError(es) ==
    IF es = <<>> THEN "none"
    ELSE IF Head(es) # "none" THEN Head(es)
    ELSE FirstError(Tail(es))

----------------------------------------------------------------------------
(* ConvBlock1d / ResnetBlock1d.  For every module, <Module>Error gives the *)
(* exception its constructor raises ("none" when it returns) and <Module>  *)
(* the layers it builds.                                                   *)

\* nn.GroupNorm(num_groups, num_channels) raises ValueError when num_channels
\* is not divisible by num_groups.
GroupNormError(num_groups, num_channels) ==
    IF num_channels % num_groups = 0 THEN "none" ELSE "ValueError"

ConvBlock1dError(in_channels, out_channels, num_groups) ==
    GroupNormError(num_groups, in_channels)

ConvBlock1d(in_channels, out_channels, num_groups) ==
    [num_channels |-> in_channels,
     project |-> Conv1d(in_channels, out_channels, 3, 1, 1)]

ConvBlock1dForward(block, t) ==
    IF t.error # "none" THEN t
    ELSE IF t.c # block.num_channels THEN Raise("RuntimeError")
    ELSE LayerApply(block.project, t)

Identity == [type |-> "Identity"]

ResnetBlock1dError(in_channels, out_channels, num_groups) ==
    FirstError(<<ConvBlock1dError(in_channels, out_channels, num_groups),
                 ConvBlock1dError(out_channels, out_channels, num_groups)>>)

ResnetBlock1d(in_channels, out_channels, num_groups) ==
    [block1 |-> ConvBlock1d(in_channels, out_channels, num_groups),
     block2 |-> ConvBlock1d(out_channels, out_channels, num_groups),
     to_out |-> IF in_channels # out_channels
                THEN Conv1d(in_channels, out_channels, 1, 1, 0)
                ELSE Identity]

\* h + s: the two operands must have one shape.
Add(h, s) ==
    IF h.error # "none" THEN h
    ELSE IF s.error # "none" THEN s
    ELSE IF <<h.b, h.c, h.t>> # <<s.b, s.c, s.t>> THEN Raise("RuntimeError")
    ELSE h

\* h = block2(block1(x)); return h + to_out(x)
ResnetBlock1dForward(block, t) ==
    Add(ConvBlock1dForward(block.block2, ConvBlock1dForward(block.block1, t)),
        LayerApply(block.to_out, t))

RECURSIVE BlocksForward(_, _)
BlocksForward(blocks, t) ==
    IF blocks = <<>> THEN t
    ELSE BlocksForward(Tail(blocks), ResnetBlock1dForward(Head(blocks), t))

----------------------------------------------------------------------------
(* Patcher / Unpatcher *)

PatcherError(in_channels, out_channels, patch_size) ==
    IF out_channels % patch_size # 0 THEN "AssertionError"
    ELSE ResnetBlock1dError(in_channels, out_channels \div patch_size,
                            Min(patch_size, in_channels))

Patcher(in_channels, out_channels, patch_size) ==
    [patch_size |-> patch_size,
     block |-> ResnetBlock1d(in_channels, out_channels \div patch_size,
                             Min(patch_size, in_channels))]

\* rearrange(x, "b c (l p) -> b (c p) l", p=patch_size)
PatchShape(t, p) ==
    IF t.error # "none" THEN t
    ELSE IF t.t % p # 0 THEN Raise("EinopsError")
    ELSE [t EXCEPT !.c = t.c * p, !.t = t.t \div p]

PatcherForward(m, t) == PatchShape(ResnetBlock1dForward(m.block, t), m.patch_size)

UnpatcherError(in_channels, out_channels, patch_size) ==
    IF in_channels % patch_size # 0 THEN "AssertionError"
    ELSE ResnetBlock1dError(in_channels \div patch_size, out_channels,
                            Min(patch_size, out_channels))

Unpatcher(in_channels, out_channels, patch_size) ==
    [patch_size |-> patch_size,
     block |-> ResnetBlock1d(in_channels \div patch_size, out_channels,
                             Min(patch_size, out_channels))]

\* rearrange(x, "b (c p) l -> b c (l p)", p=patch_size)
UnpatchShape(t, p) ==
    IF t.error # "none" THEN t
    ELSE IF t.c % p # 0 THEN Raise("EinopsError")
    ELSE [t EXCEPT !.c = t.c \div p, !.t = t.t * p]

UnpatcherForward(m, t) == ResnetBlock1dForward(m.block, UnpatchShape(t, m.patch_size))

----------------------------------------------------------------------------
(* DownsampleBlock1d / UpsampleBlock1d *)

DownsampleBlock1dError(in_channels, out_channels, factor, num_groups, num_layers) ==
    IF num_layers = 0 THEN "none"
    ELSE ResnetBlock1dError(out_channels, out_channels, num_groups)

DownsampleBlock1d(in_channels, out_channels, factor, num_groups, num_layers) ==
    [downsample |-> Downsample1d(in_channels, out_channels, factor, 2),
     blocks |-> [i \in 1..num_layers |->
                    ResnetBlock1d(out_channels, out_channels, num_groups)]]

DownsampleBlock1dForward(m, t) == BlocksForward(m.blocks, LayerApply(m.downsample, t))

UpsampleBlock1dError(in_channels, out_channels, factor, num_layers, num_groups) ==
    IF num_layers = 0 THEN "none"
    ELSE ResnetBlock1dError(in_channels, in_channels, num_groups)

UpsampleBlock1d(in_channels, out_channels, factor, num_layers, num_groups) ==
    [blocks |-> [i \in 1..num_layers |->
                    ResnetBlock1d(in_channels, in_channels, num_groups)],
     upsample |-> Upsample1d(in_channels, out_channels, factor)]

UpsampleBlock1dForward(m, t) == LayerApply(m.upsample, BlocksForward(m.blocks, t))

----------------------------------------------------------------------------
(* Bottlenecks.  A bottleneck's forward returns the tensor and its info.   *)

TanhBottleneck == [type |-> "tanh"]

NoiserBottleneck == [type |-> "noiser"]

VariationalBottleneck(channels) ==
    [type |-> "variational", channels |-> channels,
     to_mean_and_std |-> Conv1d(channels, channels * 2, 1, 1, 0)]

\* mean, std = mean_and_std.chunk(chunks=2, dim=1)
Chunk1(t) == IF t.error # "none" THEN t ELSE [t EXCEPT !.c = (t.c + 1) \div 2]

\* out = gaussian_sample(mean, std), with mean_and_std = to_mean_and_std(x)
VariationalForward(bn, t, k) ==
    Tag(Chunk1(LayerApply(bn.to_mean_and_std, t)), <<"variational", k>>)

\* The tensor a bottleneck returns; k is its place in the list, kept in ops.
BottleneckForward(bn, t, training, k) ==
    IF bn.type = "tanh" THEN Tag(t, <<"tanh", k>>)
    ELSE IF bn.type = "noiser" THEN (IF training THEN Tag(t, <<"noise", k>>) ELSE t)
    ELSE VariationalForward(bn, t, k)

\* The info a bottleneck returns.
BottleneckInfo(bn) ==
    IF bn.type = "variational"
    THEN [key \in {<<"variational_kl_loss">>, <<"variational_mean">>,
                   <<"variational_std">>} |-> key[1]]
    ELSE EmptyDict

----------------------------------------------------------------------------
(* Encoder1d *)

LengthsAssert(a) ==
    /\ Len(a.factors) = Len(a.multipliers) - 1
    /\ Len(a.num_blocks) = Len(a.multipliers) - 1

Encoder1dError(a) ==
    IF ~LengthsAssert(a) THEN "AssertionError"
    ELSE FirstError(
            <<PatcherError(a.in_channels, a.channels * a.multipliers[1], a.patch_size)>>
            \o [i \in 1..Len(a.factors) |->
                  DownsampleBlock1dError(a.channels * a.multipliers[i],
                                         a.channels * a.multipliers[i + 1],
                                         a.factors[i], a.resnet_groups, a.num_blocks[i])])

Encoder1d(a) ==
    [kind |-> "Encoder1d",
     training |-> TRUE,
     bottlenecks |-> a.bottleneck,
     num_layers |-> Len(a.multipliers) - 1,
     downsample_factor |-> a.patch_size * prod(a.factors),
     out_channels |-> IF exists(a.out_channels) THEN a.out_channels
                      ELSE a.channels * Last(a.multipliers),
     to_in |-> Patcher(a.in_channels, a.channels * a.multipliers[1], a.patch_size),
     downsamples |-> [i \in 1..(Len(a.multipliers) - 1) |->
                        DownsampleBlock1d(a.channels * a.multipliers[i],
                                          a.channels * a.multipliers[i + 1],
                                          a.factors[i], a.resnet_groups, a.num_blocks[i])],
     to_out |-> IF exists(a.out_channels)
                THEN Conv1d(a.channels * Last(a.multipliers), a.out_channels, 1, 1, 0)
                ELSE Identity]

\* for downsample in self.downsamples: x = downsample(x); xs += [x]
RECURSIVE DownsamplesForward(_, _, _)
DownsamplesForward(blocks, i, xs0) ==
    IF i > Len(blocks) THEN xs0
    ELSE DownsamplesForward(blocks, i + 1,
             Append(xs0, Tag(DownsampleBlock1dForward(blocks[i], Last(xs0)),
                             <<"downsample", i>>)))

\* x = self.to_in(x); xs += [x]
EncoderToIn(m, xs0) ==
    Append(xs0, Tag(PatcherForward(m.to_in, Last(xs0)), <<"to_in", 0>>))

EncoderToOutSkipsIdentity(m, xs0) ==
    IF m.to_out.type = "Identity" THEN xs0
    ELSE Append(xs0, Tag(LayerApply(m.to_out, Last(xs0)), <<"to_out", 0>>))

\* x = self.to_out(x); xs += [x]   (nn.Identity returns its argument)
EncoderToOut(m, xs0) ==
    Append(xs0, IF m.to_out.type = "Identity" THEN Last(xs0)
                ELSE Tag(LayerApply(m.to_out, Last(xs0)), <<"to_out", 0>>))

\* The list xs of Encoder1d.forward: xs = [x], then one entry per module.
EncoderTrace(m, t) ==
    EncoderToOut(m, DownsamplesForward(m.downsamples, 1, EncoderToIn(m, <<t>>)))

RECURSIVE BottlenecksForwardUnthreaded(_, _, _, _)
BottlenecksForwardUnthreaded(bns, k, zs, training) ==
    IF k > Len(bns) THEN zs
    ELSE BottlenecksForwardUnthreaded(bns, k + 1,
             Append(zs, BottleneckForward(bns[k], zs[1], training, k)), training)

\* for bottleneck in self.bottlenecks:
\*     x, info_bottleneck = bottleneck(x, with_info=True)
\* zs is the projection output followed by the tensor every bottleneck returned.
RECURSIVE BottlenecksForward(_, _, _, _)
BottlenecksForward(bns, k, zs, training) ==
    IF k > Len(bns) THEN zs
    ELSE BottlenecksForward(bns, k + 1,
             Append(zs, BottleneckForward(bns[k], Last(zs), training, k)), training)

\*     info = {**info, **prefix_dict("bottleneck_", info_bottleneck)}
RECURSIVE BottlenecksInfo(_, _, _)
BottlenecksInfo(bns, k, info0) ==
    IF k > Len(bns) THEN info0
    ELSE BottlenecksInfo(bns, k + 1,
             Merge(info0, prefix_dict("bottleneck", BottleneckInfo(bns[k]))))

RECURSIVE Errors(_)
Errors(ts) == IF ts = <<>> THEN <<>> ELSE <<Head(ts).error>> \o Errors(Tail(ts))

\* What Encoder1d.forward returns, given its list xs (trace) and zs.
EncoderReturn(m, trace, zs, with_info) ==
    [x |-> Last(zs),
     info |-> IF with_info
              THEN BottlenecksInfo(m.bottlenecks, 1, [key \in {<<"xs">>} |-> trace])
              ELSE EmptyDict,
     feeds |-> SubSeq(zs, 1, Len(zs) - 1),
     decoder_input |-> <<>>,
     error |-> FirstError(Errors(trace) \o Errors(zs))]

EncoderBottlenecks(m, trace, with_info) ==
    EncoderReturn(m, trace,
                  BottlenecksForward(m.bottlenecks, 1, <<Last(trace)>>, m.training),
                  with_info)

Encoder1dForward(m, t, with_info) == EncoderBottlenecks(m, EncoderTrace(m, t), with_info)

----------------------------------------------------------------------------
(* Decoder1d *)

Decoder1dError(a) ==
    IF ~LengthsAssert(a) THEN "AssertionError"
    ELSE FirstError(
            [i \in 1..Len(a.factors) |->
                  UpsampleBlock1dError(a.channels * a.multipliers[i],
                                       a.channels * a.multipliers[i + 1],
                                       a.factors[i], a.num_blocks[i], a.resnet_groups)]
            \o <<UnpatcherError(a.channels * Last(a.multipliers), a.out_channels,
                                a.patch_size)>>)

Decoder1d(a) ==
    [kind |-> "Decoder1d",
     training |-> TRUE,
     num_layers |-> Len(a.multipliers) - 1,
     to_in |-> IF exists(a.in_channels)
               THEN Conv1d(a.in_channels, a.channels * a.multipliers[1], 1, 1, 0)
               ELSE Identity,
     upsamples |-> [i \in 1..(Len(a.multipliers) - 1) |->
                      UpsampleBlock1d(a.channels * a.multipliers[i],
                                      a.channels * a.multipliers[i + 1],
                                      a.factors[i], a.num_blocks[i], a.resnet_groups)],
     to_out |-> Unpatcher(a.channels * Last(a.multipliers), a.out_channels,
                          a.patch_size)]

\* for upsample in self.upsamples: x = upsample(x); xs += [x]
RECURSIVE UpsamplesForward(_, _, _)
UpsamplesForward(blocks, i, xs0) ==
    IF i > Len(blocks) THEN xs0
    ELSE UpsamplesForward(blocks, i + 1,
             Append(xs0, Tag(UpsampleBlock1dForward(blocks[i], Last(xs0)),
                             <<"upsample", i>>)))

\* x = self.to_in(x); xs += [x]   (nn.Identity returns its argument)
DecoderToIn(m, xs0) ==
    Append(xs0, IF m.to_in.type = "Identity" THEN Last(xs0)
                ELSE Tag(LayerApply(m.to_in, Last(xs0)), <<"dec_to_in", 0>>))

\* x = self.to_out(x); xs += [x]
DecoderToOut(m, xs0) ==
    Append(xs0, Tag(UnpatcherForward(m.to_out, Last(xs0)), <<"dec_to_out", 0>>))

\* The list xs of Decoder1d.forward.
DecoderTrace(m, t) ==
    DecoderToOut(m, UpsamplesForward(m.upsamples, 1, DecoderToIn(m, <<t>>)))

DecoderReturn(trace, with_info) ==
    [x |-> Last(trace),
     info |-> IF with_info THEN [key \in {<<"xs">>} |-> trace] ELSE EmptyDict,
     feeds |-> <<>>,
     decoder_input |-> <<trace[1]>>,
     error |-> FirstError(Errors(trace))]

Decoder1dForward(m, t, with_info) == DecoderReturn(DecoderTrace(m, t), with_info)

----------------------------------------------------------------------------
(* AutoEncoder1d *)

EncoderArgs(a) ==
    [in_channels |-> a.in_channels, out_channels |-> a.bottleneck_channels,
     channels |-> a.channels, multipliers |-> a.multipliers, factors |-> a.factors,
     num_blocks |-> a.num_blocks, patch_size |-> a.patch_size,
     resnet_groups |-> a.resnet_groups, bottleneck |-> a.bottleneck]

DecoderArgsNotReversed(a) ==
    [in_channels |-> a.bottleneck_channels,
     out_channels |-> default(a.out_channels, a.in_channels),
     channels |-> a.channels, multipliers |-> a.multipliers,
     factors |-> a.factors, num_blocks |-> a.num_blocks,
     patch_size |-> a.patch_size, resnet_groups |-> a.resnet_groups]

DecoderArgs(a) ==
    [in_channels |-> a.bottleneck_channels,
     out_channels |-> default(a.out_channels, a.in_channels),
     channels |-> a.channels, multipliers |-> Reverse(a.multipliers),
     factors |-> Reverse(a.factors), num_blocks |-> Reverse(a.num_blocks),
     patch_size |-> a.patch_size, resnet_groups |-> a.resnet_groups]

AutoEncoder1dError(a) ==
    FirstError(<<Encoder1dError(EncoderArgs(a)), Decoder1dError(DecoderArgs(a))>>)

AutoEncoder1d(a) ==
    [kind |-> "AutoEncoder1d",
     training |-> TRUE,
     encoder |-> Encoder1d(EncoderArgs(a)),
     decoder |-> Decoder1d(DecoderArgs(a))]

\* info = {**dict(latent=z), **prefix_dict("encoder_", info_encoder),
\*         **prefix_dict("decoder_", info_decoder)}
AutoEncoderReturn(enc, dec, with_info) ==
    [x |-> dec.x,
     info |-> IF with_info
              THEN Merge(Merge([key \in {<<"latent">>} |-> enc.x],
                               prefix_dict("encoder", enc.info)),
                         prefix_dict("decoder", dec.info))
              ELSE EmptyDict,
     feeds |-> enc.feeds,
     decoder_input |-> dec.decoder_input,
     error |-> FirstError(<<enc.error, dec.error>>)]

\* y, info_decoder = self.decode(z, with_info=True), z being the encoder's result
AutoEncoderDecode(m, enc, with_info) ==
    AutoEncoderReturn(enc, Decoder1dForward(m.decoder, enc.x, TRUE), with_info)

\* z, info_encoder = self.encode(x, with_info=True)
AutoEncoder1dForward(m, t, with_info) ==
    AutoEncoderDecode(m,
        Encoder1dForward([m.encoder EXCEPT !.training = m.training], t, TRUE),
        with_info)

----------------------------------------------------------------------------
(* Discriminator1d.  An Optional[Sequence[bool]] argument is <<>> for None *)
(* and <<list>> for a list.                                                *)

NoList == <<>>

GivenList(list) == <<list>>

\* default(v, d) of utils.py for an optional list
default_list(v, d) == IF v = NoList THEN d ELSE v[1]

\* [True] * num_layers
AllTrue(num_layers) == [i \in 1..num_layers |-> TRUE]

\* self.use_loss = default(use_loss, [True] * num_layers)
UseLossOf(use_loss, kwargs) == default_list(use_loss, AllTrue(Len(kwargs.multipliers) - 1))

UseLossAssert(use_loss, num_layers) == Len(use_loss) = num_layers

Discriminator1dError(use_loss, kwargs) ==
    IF Encoder1dError(kwargs) # "none" THEN Encoder1dError(kwargs)
    ELSE IF ~UseLossAssert(UseLossOf(use_loss, kwargs), Len(kwargs.multipliers) - 1)
    THEN "AssertionError"
    ELSE "none"

Discriminator1d(use_loss, kwargs) ==
    [kind |-> "Discriminator1d",
     training |-> TRUE,
     discriminator |-> Encoder1d(kwargs),
     use_loss |-> UseLossOf(use_loss, kwargs)]

\* Exact arithmetic on means: a rational is [num, den] in lowest terms.
RECURSIVE GCD(_, _)
GCD(a, b) == IF b = 0 THEN a ELSE GCD(b, a % b)

Abs(v) == IF v < 0 THEN -v ELSE v

Reduced(n, d, g) == [num |-> n \div g, den |-> d \div g]

Frac(n, d) == Reduced(n, d, GCD(Abs(n), d))

FracAdd(a, b) == Frac(a.num * b.den + b.num * a.den, a.den * b.den)

FracSub(a, b) == Frac(a.num * b.den - b.num * a.den, a.den * b.den)

FracLeq(a, b) == a.num * b.den <= b.num * a.den

RECURSIVE Sum(_)
Sum(s) == IF s = <<>> THEN 0 ELSE Head(s) + Sum(Tail(s))

RECURSIVE FracSum(_)
FracSum(s) == IF s = <<>> THEN Frac(0, 1) ELSE FracAdd(Head(s), FracSum(Tail(s)))

\* t.mean() of a non-empty tensor of integers
Mean(s) == Frac(Sum(s), Len(s))

FracOver(total, n) == Frac(total.num, total.den * n)

\* torch.stack(ts).mean() of a non-empty list of means
StackMean(s) == FracOver(FracSum(s), Len(s))

Relu(v) == IF v > 0 THEN v ELSE 0

\* The activation of one stage after x.chunk(chunks=2, dim=1): the elements
\* of the score half and of the feature half, flattened.
\* F.l1_loss(feat_true, feat_fake) - score_fake.mean()
StageLossG(act_true, act_fake) ==
    FracSub(Mean([i \in 1..Len(act_true.feat) |->
                     Abs(act_true.feat[i] - act_fake.feat[i])]),
            Mean(act_fake.score))

StageLossDNoMargin(act_true, act_fake) ==
    Mean([i \in 1..Len(act_true.score) |->
             Relu(0 - act_true.score[i]) + Relu(act_fake.score[i])])

\* ((1 - score_true).relu() + (1 + score_fake).relu()).mean()
StageLossD(act_true, act_fake) ==
    Mean([i \in 1..Len(act_true.score) |->
             Relu(1 - act_true.score[i]) + Relu(1 + act_fake.score[i])])

\* The number of elements of the two chunks of a [b, c, t] tensor: the first
\* chunk has ceil(c / 2) channels.
ScoreElements(t) == t.b * ((t.c + 1) \div 2) * t.t

FeatElements(t) == t.b * (t.c - ((t.c + 1) \div 2)) * t.t

\* zip(self.use_loss, xs_true, xs_fake) stops with its shortest argument
Zip(use_loss, xs_true, xs_fake) ==
    1..Min(Len(use_loss), Min(Len(xs_true), Len(xs_fake)))

\* The positions of xs[1:] the loop body runs its `if use_loss` branch for, in order.
RECURSIVE EnabledUpTo(_, _, _)
EnabledUpTo(use_loss, zipped, i) ==
    IF i = 0 THEN <<>>
    ELSE IF i \in zipped /\ use_loss[i]
    THEN Append(EnabledUpTo(use_loss, zipped, i - 1), i)
    ELSE EnabledUpTo(use_loss, zipped, i - 1)

EnabledWhateverMask(use_loss, xs_true, xs_fake) ==
    EnabledUpTo(AllTrue(Len(use_loss)), Zip(use_loss, xs_true, xs_fake),
                Min(Len(use_loss), Len(xs_true)))

Enabled(use_loss, xs_true, xs_fake) ==
    EnabledUpTo(use_loss, Zip(use_loss, xs_true, xs_fake),
                Min(Len(use_loss), Len(xs_true)))

\* The exception of the loop: unpacking the single chunk of a 1-channel
\* tensor, adding score halves of different shapes; then torch.stack of an
\* empty list.
DiscriminatorLoopError(enabled, xs_true, xs_fake) ==
    IF \E k \in 1..Len(enabled) : xs_true[enabled[k]].c < 2 \/ xs_fake[enabled[k]].c < 2
    THEN "ValueError"
    ELSE IF \E k \in 1..Len(enabled) :
               <<xs_true[enabled[k]].b, xs_true[enabled[k]].c, xs_true[enabled[k]].t>>
                  # <<xs_fake[enabled[k]].b, xs_fake[enabled[k]].c, xs_fake[enabled[k]].t>>
    THEN "RuntimeError"
    ELSE IF enabled = <<>> THEN "RuntimeError"
    ELSE "none"

\* loss_g / loss_d / info from the chunks of the enabled positions
DiscriminatorLosses(enabled, acts_true, acts_fake) ==
    [loss_g |-> StackMean([k \in 1..Len(enabled) |->
                              StageLossG(acts_true[enabled[k]], acts_fake[enabled[k]])]),
     loss_d |-> StackMean([k \in 1..Len(enabled) |->
                              StageLossD(acts_true[enabled[k]], acts_fake[enabled[k]])]),
     info |-> [scores_true |-> [k \in 1..Len(enabled) |-> Mean(acts_true[enabled[k]].score)],
               scores_fake |-> [k \in 1..Len(enabled) |-> Mean(acts_fake[enabled[k]].score)]],
     terms |-> enabled,
     error |-> "none"]

DiscriminatorFailed(e) ==
    [loss_g |-> Frac(0, 1), loss_d |-> Frac(0, 1), info |-> EmptyDict, terms |-> <<>>,
     error |-> e]

\* Discriminator1d.forward given the two encoder passes and the values the
\* encoder computed at the enabled positions.
Discriminator1dLoop(enabled, xs_true, xs_fake, acts_true, acts_fake) ==
    IF DiscriminatorLoopError(enabled, xs_true, xs_fake) # "none"
    THEN DiscriminatorFailed(DiscriminatorLoopError(enabled, xs_true, xs_fake))
    ELSE DiscriminatorLosses(enabled, acts_true, acts_fake)

----------------------------------------------------------------------------
(* Specification Spec:a program that builds an Encoder1d, a Decoder1d or  *)
(* an AutoEncoder1d from one set of arguments and runs one forward pass.   *)

MaxLayers == 2
MaxMultiplier == 2
MaxStageFactor == 3
MaxBlocks == 1
MaxPatch == 2
MaxChannels == 2
MaxT == 8
BottleneckChannels == 3
ResnetGroups == {2}
OutChannels == 3

Lists(S, n) == [1..n -> S]

\* The bottleneck lists handed to the constructors; a variational
\* bottleneck is built for the width c the encoder hands to it.
BottleneckLists(c) ==
    {<<>>, <<VariationalBottleneck(c), TanhBottleneck>>,
     <<NoiserBottleneck, VariationalBottleneck(c)>>}

LatentChannelsOf(channels, multipliers, bottleneck_channels) ==
    IF exists(bottleneck_channels) THEN bottleneck_channels
    ELSE channels * Last(multipliers)

LatentChannels(a) == LatentChannelsOf(a.channels, a.multipliers, a.bottleneck_channels)

\* Arguments whose lists have matching lengths.
Init ==
    /\ pc = "new"
    /\ \E n \in 0..MaxLayers, nb \in 0..MaxBlocks :
       \E in_channels \in 1..MaxChannels, out_channels \in {None, OutChannels},
          channels \in 1..MaxChannels, multipliers \in Lists(1..MaxMultiplier, n + 1),
          factors \in Lists(1..MaxStageFactor, n), patch_size \in 1..MaxPatch,
          resnet_groups \in ResnetGroups, bottleneck_channels \in {None, BottleneckChannels} :
       \E bottleneck \in BottleneckLists(
                             LatentChannelsOf(channels, multipliers, bottleneck_channels)) :
          args = [in_channels |-> in_channels, out_channels |-> out_channels,
                  channels |-> channels, multipliers |-> multipliers,
                  factors |-> factors, num_blocks |-> [i \in 1..n |-> nb],
                  patch_size |-> patch_size, resnet_groups |-> resnet_groups,
                  bottleneck_channels |-> bottleneck_channels,
                  bottleneck |-> bottleneck]
    /\ mod = <<>>
    /\ x = <<>>
    /\ flow = <<>>
    /\ out = <<>>
    /\ info = EmptyDict
    /\ err = "none"

\* The layers of a module are a function of its constructor arguments: the
\* state keeps which module was built (mod.kind) and its training flag, and
\* Module gives its layers.
Module(kind, a) ==
    IF kind = "Encoder1d" THEN Encoder1d(EncoderArgs(a))
    ELSE IF kind = "Decoder1d" THEN Decoder1d(DecoderArgs(a))
    ELSE AutoEncoder1d(a)

ModuleError(kind, a) ==
    IF kind = "Encoder1d" THEN Encoder1dError(EncoderArgs(a))
    ELSE IF kind = "Decoder1d" THEN Decoder1dError(DecoderArgs(a))
    ELSE AutoEncoder1dError(a)

\* The constructor returned the module m, or raised error.
BuiltAs(m, error) ==
    IF error = "none"
    THEN /\ mod' = m
         /\ pc' = "ready"
         /\ err' = err
    ELSE /\ mod' = mod
         /\ pc' = "ctor_error"
         /\ err' = error

Built(kind, error) == BuiltAs([kind |-> kind, training |-> TRUE], error)

\* Encoder1d(in_channels=.., out_channels=bottleneck_channels, ..)
ConstructEncoder ==
    /\ pc = "new"
    /\ Built("Encoder1d", ModuleError("Encoder1d", args))
    /\ UNCHANGED <<args, x, flow, out, info>>

\* Decoder1d(in_channels=bottleneck_channels, out_channels=.., ..)
ConstructDecoder ==
    /\ pc = "new"
    /\ Built("Decoder1d", ModuleError("Decoder1d", args))
    /\ UNCHANGED <<args, x, flow, out, info>>

ConstructAutoEncoder ==
    /\ pc = "new"
    /\ Built("AutoEncoder1d", ModuleError("AutoEncoder1d", args))
    /\ UNCHANGED <<args, x, flow, out, info>>

Returned(input, res) ==
    /\ x' = input
    /\ IF res.error = "none"
       THEN /\ pc' = "done"
            /\ out' = res.x
            /\ info' = res.info
            /\ err' = err
       ELSE /\ pc' = "error"
            /\ out' = out
            /\ info' = info
            /\ err' = res.error

TheModule == [Module(mod.kind, args) EXCEPT !.training = mod.training]

\* y, info = encoder(x, with_info=True)
EncoderForward ==
    /\ pc = "ready"
    /\ mod.kind = "Encoder1d"
    /\ \E t \in 1..MaxT :
       \E res \in {Encoder1dForward(TheModule, Tensor(1, args.in_channels, t), TRUE)} :
          /\ Returned(Tensor(1, args.in_channels, t), res)
          /\ flow' = [feeds |-> res.feeds, decoder_input |-> res.decoder_input]
    /\ UNCHANGED <<args, mod>>

\* y, info = decoder(z, with_info=True)
DecoderForward ==
    /\ pc = "ready"
    /\ mod.kind = "Decoder1d"
    /\ \E t \in 1..MaxT :
       \E res \in {Decoder1dForward(TheModule, Tensor(1, LatentChannels(args), t), TRUE)} :
          /\ Returned(Tensor(1, LatentChannels(args), t), res)
          /\ flow' = [feeds |-> res.feeds, decoder_input |-> res.decoder_input]
    /\ UNCHANGED <<args, mod>>

\* y, info = autoencoder(x, with_info=True)
AutoEncoderForward ==
    /\ pc = "ready"
    /\ mod.kind = "AutoEncoder1d"
    /\ \E t \in 1..MaxT :
       \E res \in {AutoEncoder1dForward(TheModule, Tensor(1, args.in_channels, t), TRUE)} :
          /\ Returned(Tensor(1, args.in_channels, t), res)
          /\ flow' = [feeds |-> res.feeds, decoder_input |-> res.decoder_input]
    /\ UNCHANGED <<args, mod>>

Next ==
    \/ ConstructEncoder
    \/ ConstructDecoder
    \/ ConstructAutoEncoder
    \/ EncoderForward
    \/ DecoderForward
    \/ AutoEncoderForward

Spec == Init /\ [][Next]_vars

----------------------------------------------------------------------------
(* Claims checked under Spec *)

Ran(kind) == pc \in {"done", "error"} /\ mod.kind = kind

\* patch_size * prod(factors), Encoder1d's downsample_factor
CumulativeFactor == args.patch_size * prod(args.factors)

CeilDiv(a, b) == (a + b - 1) \div b

\* C4 as claimed: with an input length that is not a multiple of
\* patch_size * prod(factors), a forward pass of Encoder1d / AutoEncoder1d
\* fails, and no pass returns an output whose length differs from the input's.
C4_Original ==
    /\ ((Ran("Encoder1d") \/ Ran("AutoEncoder1d")) /\ x.t % CumulativeFactor # 0)
          => pc = "error"
    /\ (Ran("AutoEncoder1d") /\ pc = "done") => out.t = x.t

\* C4 as amended: with such a length the pass fails (in the Patcher's
\* rearrange) exactly when the length is not a multiple of patch_size;
\* otherwise it completes, every Downsample1d rounding its length up:
\* Encoder1d returns length ceil(t / (patch_size * prod(factors))) and
\* AutoEncoder1d an output as long as t rounded up to the next multiple of
\* patch_size * prod(factors), longer than its input.
C4_NonMultipleLength ==
    ((Ran("Encoder1d") \/ Ran("AutoEncoder1d")) /\ x.t % CumulativeFactor # 0) =>
        IF x.t % args.patch_size # 0
        THEN pc = "error" /\ err = "EinopsError"
        ELSE /\ pc = "done"
             /\ mod.kind = "Encoder1d" => out.t = CeilDiv(x.t, CumulativeFactor)
             /\ mod.kind = "AutoEncoder1d" =>
                   /\ out.t = CumulativeFactor * CeilDiv(x.t, CumulativeFactor)
                   /\ out.t > x.t

C4_Witness ==
    /\ Ran("AutoEncoder1d")
    /\ pc = "done"
    /\ args.factors = <<2, 3>>
    /\ args.patch_size = 1
    /\ x.t = 7
    /\ out.t = 12

EncoderXs == IF mod.kind = "Encoder1d" THEN info[<<"xs">>] ELSE info[<<"encoder", "xs">>]

DecoderXs == IF mod.kind = "Decoder1d" THEN info[<<"xs">>] ELSE info[<<"decoder", "xs">>]

Latent == IF mod.kind = "Encoder1d" THEN out ELSE info[<<"latent">>]

\* The mark a bottleneck leaves in the ops of the tensor it returns.
BottleneckTag(bn, k) == <<IF bn.type = "noiser" THEN "noise" ELSE bn.type, k>>

EncoderDone == pc = "done" /\ mod.kind \in {"Encoder1d", "AutoEncoder1d"}

\* C9: the bottlenecks run in list order after the encoder's projection and
\* before the decoder: the first receives the projection output, bottleneck
\* k the output of bottleneck k-1, the latent is the last one's output (the
\* projection output when there is none), and the decoder receives the
\* latent and nothing else.
C9_BottleneckOrder ==
    EncoderDone =>
        /\ Len(flow.feeds) = Len(args.bottleneck)
        /\ \A k \in 1..Len(flow.feeds) :
              /\ k = 1 => flow.feeds[k] = Last(EncoderXs)
              /\ k > 1 => flow.feeds[k]
                             = BottleneckForward(args.bottleneck[k - 1], flow.feeds[k - 1],
                                                 mod.training, k - 1)
        /\ Latent = IF args.bottleneck = <<>> THEN Last(EncoderXs)
                    ELSE BottleneckForward(Last(args.bottleneck), Last(flow.feeds),
                                           mod.training, Len(args.bottleneck))
        /\ Latent.ops = Last(EncoderXs).ops
                          \o [k \in 1..Len(args.bottleneck) |->
                                BottleneckTag(args.bottleneck[k], k)]
        /\ mod.kind = "AutoEncoder1d" =>
              /\ flow.decoder_input = <<Latent>>
              /\ DecoderXs[1] = Latent

C9_Witness ==
    /\ EncoderDone
    /\ mod.kind = "AutoEncoder1d"
    /\ Len(args.bottleneck) = 2
    /\ args.bottleneck[1].type = "variational"
    /\ args.bottleneck[2].type = "tanh"
    /\ exists(args.bottleneck_channels)
    /\ Latent.ops = Last(EncoderXs).ops \o <<<<"variational", 1>>, <<"tanh", 2>>>>
    /\ DecoderXs[1] = Latent

NumLayers == Len(args.multipliers) - 1

BottleneckTags == {"tanh", "noise", "variational"}

HasBottleneckTag(t) == \E i \in 1..Len(t.ops) : t.ops[i][1] \in BottleneckTags

\* C10: the xs of Encoder1d.forward is the raw input, the Patcher output,
\* one entry per downsample stage in order and the projection output:
\* num_layers + 3 entries, also with the identity projection, none of them a
\* bottleneck output.  The xs of Decoder1d.forward is its input, the
\* projection output, one entry per upsample stage and the Unpatcher output.
C10_XsTrace ==
    /\ EncoderDone =>
          /\ Len(EncoderXs) = NumLayers + 3
          /\ EncoderXs[1] = x
          /\ EncoderXs[2].ops = <<<<"to_in", 0>>>>
          /\ \A i \in 1..NumLayers :
                EncoderXs[2 + i].ops = Append(EncoderXs[1 + i].ops, <<"downsample", i>>)
          /\ EncoderXs[NumLayers + 3]
                = IF exists(args.bottleneck_channels)
                  THEN [EncoderXs[NumLayers + 2] EXCEPT
                           !.c = args.bottleneck_channels,
                           !.ops = Append(@, <<"to_out", 0>>)]
                  ELSE EncoderXs[NumLayers + 2]
          /\ \A i \in 1..Len(EncoderXs) : ~HasBottleneckTag(EncoderXs[i])
    /\ (pc = "done" /\ mod.kind \in {"Decoder1d", "AutoEncoder1d"}) =>
          /\ Len(DecoderXs) = NumLayers + 3
          /\ DecoderXs[1] = IF mod.kind = "Decoder1d" THEN x ELSE Latent
          /\ DecoderXs[2].ops
                = IF exists(args.bottleneck_channels)
                  THEN Append(DecoderXs[1].ops, <<"dec_to_in", 0>>)
                  ELSE DecoderXs[1].ops
          /\ \A i \in 1..NumLayers :
                DecoderXs[2 + i].ops = Append(DecoderXs[1 + i].ops, <<"upsample", i>>)
          /\ DecoderXs[NumLayers + 3].ops
                = Append(DecoderXs[NumLayers + 2].ops, <<"dec_to_out", 0>>)
          /\ DecoderXs[NumLayers + 3] = out

C10_Witness ==
    /\ EncoderDone
    /\ mod.kind = "AutoEncoder1d"
    /\ NumLayers = 2
    /\ ~exists(args.bottleneck_channels)
    /\ Len(args.bottleneck) = 2
    /\ Len(EncoderXs) = 5
    /\ EncoderXs[5] = EncoderXs[4]
    /\ EncoderXs[4].ops = <<<<"to_in", 0>>, <<"downsample", 1>>, <<"downsample", 2>>>>
    /\ Len(DecoderXs) = 5

----------------------------------------------------------------------------
(* Specification SpecConfig: a program that calls one constructor with     *)
(* arguments whose lists may be of any length, and runs a forward pass of  *)
(* the module when the constructor returned one.                           *)

MaxListLen == 2

ListsUpTo(S, n) == UNION {Lists(S, k) : k \in 0..n}

UseLossArgs == {NoList} \cup {GivenList(l) : l \in ListsUpTo(BOOLEAN, MaxListLen)}

InitConfig ==
    /\ pc = "new"
    /\ \E in_channels \in 1..MaxChannels, channels \in 1..MaxChannels,
          multipliers \in ListsUpTo(1..MaxMultiplier, MaxListLen + 1) \ {<<>>},
          factors \in ListsUpTo(1..MaxStageFactor, MaxListLen),
          nb \in 0..MaxBlocks, num_blocks_len \in 0..MaxListLen,
          patch_size \in 1..MaxPatch, resnet_groups \in ResnetGroups :
          args = [in_channels |-> in_channels, out_channels |-> None,
                  channels |-> channels, multipliers |-> multipliers,
                  factors |-> factors, num_blocks |-> [i \in 1..num_blocks_len |-> nb],
                  patch_size |-> patch_size, resnet_groups |-> resnet_groups,
                  bottleneck_channels |-> None, bottleneck |-> <<>>,
                  use_loss |-> NoList, factor |-> 1, kernel_multiplier |-> 2]
    /\ mod = <<>>
    /\ x = <<>>
    /\ flow = <<>>
    /\ out = <<>>
    /\ info = EmptyDict
    /\ err = "none"

\* Discriminator1d(use_loss=use_loss, **kwargs)
ConstructDiscriminator ==
    /\ pc = "new"
    /\ \E use_loss \in UseLossArgs :
          /\ args' = [args EXCEPT !.use_loss = use_loss]
          /\ BuiltAs([kind |-> "Discriminator1d", training |-> TRUE,
                      use_loss |-> UseLossOf(use_loss, EncoderArgs(args))],
                     Discriminator1dError(use_loss, EncoderArgs(args)))
    /\ UNCHANGED <<x, flow, out, info>>

\* Downsample1d(in_channels, out_channels, factor, kernel_multiplier)
ConstructDownsample ==
    /\ pc = "new"
    /\ \E factor \in 1..MaxStageFactor, kernel_multiplier \in 1..MaxKernelMultiplier :
          /\ args' = [args EXCEPT !.factor = factor,
                                  !.kernel_multiplier = kernel_multiplier]
          /\ BuiltAs([kind |-> "Downsample1d", training |-> TRUE,
                      layer |-> Downsample1d(args.in_channels, args.channels, factor,
                                             kernel_multiplier)],
                     IF Downsample1dAssert(kernel_multiplier) THEN "none"
                     ELSE "AssertionError")
    /\ UNCHANGED <<x, flow, out, info>>

NextConfig ==
    \/ ConstructEncoder
    \/ ConstructDecoder
    \/ ConstructAutoEncoder
    \/ ConstructDiscriminator
    \/ ConstructDownsample
    \/ EncoderForward
    \/ DecoderForward
    \/ AutoEncoderForward

SpecConfig == InitConfig /\ [][NextConfig]_vars

----------------------------------------------------------------------------
(* Claims checked under SpecConfig *)

\* A module of this kind was returned by its constructor.
IsBuilt(kind) == pc \in {"ready", "done", "error"} /\ mod.kind = kind

BadLengths == Len(args.factors) # Len(args.multipliers) - 1

BadPatch == (args.channels * args.multipliers[1]) % args.patch_size # 0

BadUseLoss ==
    /\ args.use_loss # NoList
    /\ Len(args.use_loss[1]) # Len(args.multipliers) - 1

OddKernelMultiplier == args.kernel_multiplier % 2 = 1

\* C3: construction fails, and no module that a forward pass could be run
\* on exists, when len(factors) # len(multipliers) - 1 (Encoder1d,
\* Decoder1d, AutoEncoder1d, and the Discriminator1d wrapping an encoder),
\* when Downsample1d is given an odd kernel_multiplier, when
\* channels * multipliers[0] is not divisible by patch_size (the modules
\* that build a Patcher), and when the length of Discriminator1d's use_loss
\* differs from the number of stages.  The constructor raises; the failure
\* is never left to forward.
C3_ConstructionFails ==
    /\ BadLengths =>
          \A kind \in {"Encoder1d", "Decoder1d", "AutoEncoder1d", "Discriminator1d"} :
             ~IsBuilt(kind)
    /\ BadPatch =>
          \A kind \in {"Encoder1d", "AutoEncoder1d", "Discriminator1d"} : ~IsBuilt(kind)
    /\ BadUseLoss => ~IsBuilt("Discriminator1d")
    /\ OddKernelMultiplier => ~IsBuilt("Downsample1d")
    /\ ((BadLengths \/ BadUseLoss \/ OddKernelMultiplier) /\ pc # "new")
          => (pc = "ctor_error" \/ IsBuilt("Downsample1d"))
    /\ pc = "ctor_error" => (mod = <<>> /\ err # "none")
    /\ IsBuilt("Discriminator1d") => Len(mod.use_loss) = Len(args.multipliers) - 1

C3_Witness ==
    /\ pc = "ctor_error"
    /\ err = "AssertionError"
    /\ Len(args.multipliers) = 3
    /\ Len(args.factors) = 1
    /\ Len(args.num_blocks) = 2
    /\ ~BadPatch
    /\ args.use_loss = NoList

----------------------------------------------------------------------------
(* Specification SpecPatch: a program that applies the Patcher / Unpatcher *)
(* rearranges, and the Patcher / Unpatcher modules, one after the other to *)
(* a tensor.  Under this specification a tensor also carries `at`: for     *)
(* every index <<b, c, t>> (from 0) the index of the input element that    *)
(* sits there, <<>> once a learned block has mixed the elements.           *)
(*   args : in_channels, out_channels, patch_size                          *)
(*   mod  : the names of the operations applied so far                     *)
(*   flow : the tensor before and after every operation                    *)

MaxBatch == 2
MaxPatchChannels == 4
MaxPatchLen == 6
MaxPatchSize == 3

Indices(b, c, t) == (0..(b - 1)) \X (0..(c - 1)) \X (0..(t - 1))

WithElements(t, at) ==
    [b |-> t.b, c |-> t.c, t |-> t.t, ops |-> t.ops, error |-> t.error, at |-> at]

PatchElementsChannelMinor(t, p) ==
    [idx \in Indices(t.b, t.c * p, t.t \div p) |->
        t.at[<<idx[1], idx[2] % t.c, idx[3] * p + (idx[2] \div t.c)>>]]

\* rearrange(x, "b c (l p) -> b (c p) l", p=patch_size): the element at
\* [b, c, l*p + i] goes to [b, c*p + i, l]
PatchElements(t, p) ==
    [idx \in Indices(t.b, t.c * p, t.t \div p) |->
        t.at[<<idx[1], idx[2] \div p, idx[3] * p + (idx[2] % p)>>]]

\* rearrange(x, "b (c p) l -> b c (l p)", p=patch_size): the element at
\* [b, c*p + i, l] goes to [b, c, l*p + i]
UnpatchElements(t, p) ==
    [idx \in Indices(t.b, t.c \div p, t.t * p) |->
        t.at[<<idx[1], idx[2] * p + (idx[3] % p), idx[3] \div p>>]]

PatchRearrange(t, p) ==
    IF PatchShape(t, p).error # "none" THEN PatchShape(t, p)
    ELSE WithElements(PatchShape(t, p), PatchElements(t, p))

UnpatchRearrange(t, p) ==
    IF UnpatchShape(t, p).error # "none" THEN UnpatchShape(t, p)
    ELSE WithElements(UnpatchShape(t, p), UnpatchElements(t, p))

\* The result of a module that ends or starts with a learned block.
Mixed(t) == IF t.error # "none" THEN t ELSE WithElements(t, <<>>)

InitPatch ==
    /\ pc = "idle"
    /\ args \in [in_channels : 1..MaxPatchChannels, out_channels : 1..MaxPatchChannels,
                 patch_size : 1..MaxPatchSize]
    /\ \E b \in 1..MaxBatch, t \in 1..MaxPatchLen :
          x = WithElements(Tensor(b, args.in_channels, t),
                           [idx \in Indices(b, args.in_channels, t) |-> idx])
    /\ flow = <<x>>
    /\ mod = <<>>
    /\ out = <<>>
    /\ info = <<>>
    /\ err = "none"

\* The operation named op returned y, or raised.
Applied(op, y) ==
    IF y.error = "none"
    THEN /\ x' = y
         /\ flow' = Append(flow, y)
         /\ mod' = Append(mod, op)
         /\ pc' = "idle"
         /\ err' = err
    ELSE /\ pc' = "error"
         /\ err' = y.error
         /\ UNCHANGED <<x, flow, mod>>

\* x = rearrange(x, "b c (l p) -> b (c p) l", p=patch_size)
ApplyPatchRearrange ==
    /\ pc = "idle"
    /\ Len(mod) < MaxOps
    /\ x.at # <<>>
    /\ Applied("patch", PatchRearrange(x, args.patch_size))
    /\ UNCHANGED <<args, out, info>>

\* x = rearrange(x, "b (c p) l -> b c (l p)", p=patch_size)
ApplyUnpatchRearrange ==
    /\ pc = "idle"
    /\ Len(mod) < MaxOps
    /\ x.at # <<>>
    /\ Applied("unpatch", UnpatchRearrange(x, args.patch_size))
    /\ UNCHANGED <<args, out, info>>

\* x = Patcher(in_channels, out_channels, patch_size)(x)
ApplyPatcher ==
    /\ pc = "idle"
    /\ Len(mod) < MaxOps
    /\ IF PatcherError(args.in_channels, args.out_channels, args.patch_size) # "none"
       THEN /\ pc' = "ctor_error"
            /\ err' = PatcherError(args.in_channels, args.out_channels, args.patch_size)
            /\ UNCHANGED <<x, flow, mod>>
       ELSE Applied("Patcher",
                Mixed(PatcherForward(
                    Patcher(args.in_channels, args.out_channels, args.patch_size), x)))
    /\ UNCHANGED <<args, out, info>>

\* x = Unpatcher(out_channels, in_channels, patch_size)(x)
ApplyUnpatcher ==
    /\ pc = "idle"
    /\ Len(mod) < MaxOps
    /\ IF UnpatcherError(args.out_channels, args.in_channels, args.patch_size) # "none"
       THEN /\ pc' = "ctor_error"
            /\ err' = UnpatcherError(args.out_channels, args.in_channels, args.patch_size)
            /\ UNCHANGED <<x, flow, mod>>
       ELSE Applied("Unpatcher",
                Mixed(UnpatcherForward(
                    Unpatcher(args.out_channels, args.in_channels, args.patch_size), x)))
    /\ UNCHANGED <<args, out, info>>

NextPatch ==
    \/ ApplyPatchRearrange
    \/ ApplyUnpatchRearrange
    \/ ApplyPatcher
    \/ ApplyUnpatcher

SpecPatch == InitPatch /\ [][NextPatch]_vars

\* C5: the Patcher rearrange followed by the Unpatcher rearrange with the
\* same patch_size returns every element to its original (batch, channel,
\* time) index and keeps the shape; the Patcher rearrange alone moves every
\* element to exactly one place of the [b, c*p, l] result; and
\* Patcher(in, out, p) followed by Unpatcher(out, in, p) returns a tensor
\* with the channel count and the time length of the original input.
C5_PatchRoundTrip ==
    /\ \A i \in 1..Len(mod) :
          mod[i] = "patch" =>
             /\ <<flow[i + 1].c, flow[i + 1].t * args.patch_size>>
                   = <<flow[i].c * args.patch_size, flow[i].t>>
             /\ {flow[i + 1].at[idx] : idx \in DOMAIN flow[i + 1].at}
                   = {flow[i].at[idx] : idx \in DOMAIN flow[i].at}
             /\ \A i1, i2 \in DOMAIN flow[i + 1].at :
                   flow[i + 1].at[i1] = flow[i + 1].at[i2] => i1 = i2
    /\ \A i \in 1..(Len(mod) - 1) :
          /\ (mod[i] = "patch" /\ mod[i + 1] = "unpatch") => flow[i + 2] = flow[i]
          /\ (mod[i] = "Patcher" /\ mod[i + 1] = "Unpatcher") =>
                <<flow[i + 2].b, flow[i + 2].c, flow[i + 2].t>>
                   = <<flow[i].b, flow[i].c, flow[i].t>>

C5_Witness ==
    /\ mod = <<"patch", "unpatch">>
    /\ args.patch_size = 3
    /\ <<flow[1].b, flow[1].c, flow[1].t>> = <<2, 2, 6>>
    /\ <<flow[2].c, flow[2].t>> = <<6, 2>>
    /\ flow[2].at[<<1, 5, 1>>] = <<1, 1, 5>>
    /\ flow[3] = flow[1]

----------------------------------------------------------------------------
(* Specification SpecSTFT: a program that stacks a spectral pair as        *)
(* STFT.encode1d does after self.encode, and unstacks a stacked tensor as  *)
(* STFT.decode1d does before self.decode.  A tensor is its shape and, for  *)
(* every index (from 0), the label of the element that sits there.         *)
(*   args : num_fft, use_complex                                           *)
(*   x    : <<stft_a, stft_b>> (pc = "pair") or the stacked tensor         *)
(*   mod  : the names of the operations applied so far                     *)
(*   flow : x before and after every operation                             *)

MaxNumFft == 5
MaxSpecChannels == 2
MaxFrames == 2
MaxStackedChannels == 8

Indices4(b, c, f, l) == (0..(b - 1)) \X (0..(c - 1)) \X (0..(f - 1)) \X (0..(l - 1))

\* f = self.num_fft // 2 + 1, also the number of rows torch.stft returns
NumFreq(num_fft) == (num_fft \div 2) + 1

\* The names of the pair self.encode returns.
PairNames(use_complex) ==
    IF use_complex THEN <<"real", "imag">> ELSE <<"magnitude", "phase">>

\* One tensor of the pair returned by self.encode: shape [b, c, f, l]
Spectral(name, b, c, f, l) ==
    [shape |-> <<b, c, f, l>>,
     at |-> [idx \in Indices4(b, c, f, l) |-> <<name>> \o idx]]

\* rearrange(t, "b c f l -> b (c f) l")
FoldFrequency(t) ==
    [shape |-> <<t.shape[1], t.shape[2] * t.shape[3], t.shape[4]>>,
     at |-> [idx \in Indices(t.shape[1], t.shape[2] * t.shape[3], t.shape[4]) |->
               t.at[<<idx[1], idx[2] \div t.shape[3], idx[2] % t.shape[3], idx[3]>>]]]

\* rearrange(t, "b (c f) l -> b c f l", f=f), for a channel count f divides
UnfoldFrequency(t, f) ==
    [shape |-> <<t.shape[1], t.shape[2] \div f, f, t.shape[3]>>,
     at |-> [idx \in Indices4(t.shape[1], t.shape[2] \div f, f, t.shape[3]) |->
               t.at[<<idx[1], idx[2] * f + idx[3], idx[4]>>]]]

CatSwapped(a, b) ==
    [shape |-> <<a.shape[1], a.shape[2] + b.shape[2], a.shape[3]>>,
     at |-> [idx \in Indices(a.shape[1], a.shape[2] + b.shape[2], a.shape[3]) |->
               IF idx[2] < b.shape[2] THEN b.at[idx]
               ELSE a.at[<<idx[1], idx[2] - b.shape[2], idx[3]>>]]]

\* torch.cat((a, b), dim=1)
Cat(a, b) ==
    [shape |-> <<a.shape[1], a.shape[2] + b.shape[2], a.shape[3]>>,
     at |-> [idx \in Indices(a.shape[1], a.shape[2] + b.shape[2], a.shape[3]) |->
               IF idx[2] < a.shape[2] THEN a.at[idx]
               ELSE b.at[<<idx[1], idx[2] - a.shape[2], idx[3]>>]]]

\* The channels first .. first + n - 1 of t
Narrow(t, first, n) ==
    [shape |-> <<t.shape[1], n, t.shape[3]>>,
     at |-> [idx \in Indices(t.shape[1], n, t.shape[3]) |->
               t.at[<<idx[1], idx[2] + first, idx[3]>>]]]

\* t.chunk(chunks=2, dim=1): chunks of ceil(n / 2) channels, the last one
\* smaller or missing when n is odd
Chunk(t) ==
    IF t.shape[2] <= (t.shape[2] + 1) \div 2
    THEN <<t>>
    ELSE <<Narrow(t, 0, (t.shape[2] + 1) \div 2),
           Narrow(t, (t.shape[2] + 1) \div 2, t.shape[2] - ((t.shape[2] + 1) \div 2))>>

\* encode1d after self.encode, stacked=True
Encode1dStack(pair) == Cat(FoldFrequency(pair[1]), FoldFrequency(pair[2]))

\* decode1d up to the call of self.decode: the pair handed to it, or the
\* exception raised before (unpacking one chunk, a channel count f does
\* not divide).
Decode1dError(chunks, f) ==
    IF Len(chunks) # 2 THEN "ValueError"
    ELSE IF chunks[1].shape[2] % f # 0 \/ chunks[2].shape[2] % f # 0 THEN "EinopsError"
    ELSE "none"

Decode1dUnstack(chunks, f) == <<UnfoldFrequency(chunks[1], f), UnfoldFrequency(chunks[2], f)>>

InitSTFT ==
    /\ args \in [num_fft : 1..MaxNumFft, use_complex : BOOLEAN]
    /\ \/ /\ pc = "pair"
          /\ \E b \in 1..MaxBatch, c \in 1..MaxSpecChannels, l \in 1..MaxFrames :
                x = <<Spectral(PairNames(args.use_complex)[1], b, c,
                               NumFreq(args.num_fft), l),
                      Spectral(PairNames(args.use_complex)[2], b, c,
                               NumFreq(args.num_fft), l)>>
       \/ /\ pc = "stacked"
          /\ \E b \in 1..MaxBatch, c \in 1..MaxStackedChannels, l \in 1..MaxFrames :
                x = [shape |-> <<b, c, l>>,
                     at |-> [idx \in Indices(b, c, l) |-> <<"latent">> \o idx]]
    /\ flow = <<x>>
    /\ mod = <<>>
    /\ out = <<>>
    /\ info = <<>>
    /\ err = "none"

\* stacked = torch.cat(rearrange_many((stft_a, stft_b), "b c f l -> b (c f) l"), dim=1)
StackPair ==
    /\ pc = "pair"
    /\ Len(mod) < MaxOps
    /\ x' = Encode1dStack(x)
    /\ flow' = Append(flow, x')
    /\ mod' = Append(mod, "stack")
    /\ pc' = "stacked"
    /\ UNCHANGED <<args, out, info, err>>

\* stft_a, stft_b = stft_pair.chunk(chunks=2, dim=1), each unfolded with f
UnstackPair ==
    /\ pc = "stacked"
    /\ Len(mod) < MaxOps
    /\ \E chunks \in {Chunk(x)} :
          IF Decode1dError(chunks, NumFreq(args.num_fft)) = "none"
          THEN /\ x' = Decode1dUnstack(chunks, NumFreq(args.num_fft))
               /\ flow' = Append(flow, x')
               /\ mod' = Append(mod, "unstack")
               /\ pc' = "pair"
               /\ err' = err
          ELSE /\ pc' = "error"
               /\ err' = Decode1dError(chunks, NumFreq(args.num_fft))
               /\ UNCHANGED <<x, flow, mod>>
    /\ UNCHANGED <<args, out, info>>

NextSTFT == StackPair \/ UnstackPair

SpecSTFT == InitSTFT /\ [][NextSTFT]_vars

\* C6: for a pair (A, B) of shape [b, c, f, l] with f = num_fft // 2 + 1,
\* encode1d's stacking puts A[b, c, f, l] at channel c*f_total + f and
\* B[b, c, f, l] at channel c_total*f_total + c*f_total + f of a
\* [b, 2*c*f, l] tensor, and decode1d's unstacking of that tensor does not
\* raise and hands back exactly A and B, every element at its index, with
\* use_complex true and false alike.
C6_StackRoundTrip ==
    \A i \in 1..Len(mod) :
       (/\ mod[i] = "stack"
        /\ flow[i][1].shape = flow[i][2].shape
        /\ flow[i][1].shape[3] = NumFreq(args.num_fft)) =>
          /\ flow[i + 1].shape
                = <<flow[i][1].shape[1],
                    2 * flow[i][1].shape[2] * flow[i][1].shape[3],
                    flow[i][1].shape[4]>>
          /\ \A idx \in DOMAIN flow[i][1].at :
                /\ flow[i + 1].at[<<idx[1], idx[2] * flow[i][1].shape[3] + idx[3], idx[4]>>]
                      = flow[i][1].at[idx]
                /\ flow[i + 1].at[<<idx[1],
                                    flow[i][1].shape[2] * flow[i][1].shape[3]
                                       + idx[2] * flow[i][1].shape[3] + idx[3],
                                    idx[4]>>]
                      = flow[i][2].at[idx]
          /\ (i = Len(mod) /\ Len(mod) < MaxOps) => pc = "stacked"
          /\ (i < Len(mod)) => (mod[i + 1] = "unstack" /\ flow[i + 2] = flow[i])

C6_Witness ==
    /\ mod = <<"stack", "unstack">>
    /\ pc = "pair"
    /\ args.num_fft = 5
    /\ flow[1][1].shape = <<2, 2, 3, 2>>
    /\ flow[2].shape = <<2, 12, 2>>
    /\ flow[2].at[<<1, 5, 1>>] = <<PairNames(args.use_complex)[1], 1, 1, 2, 1>>
    /\ flow[2].at[<<1, 11, 1>>] = <<PairNames(args.use_complex)[2], 1, 1, 2, 1>>
    /\ flow[3] = flow[1]
    /\ ~args.use_complex

----------------------------------------------------------------------------
(* Specification SpecDisc: a program that builds a Discriminator1d and     *)
(* calls it once on a pair of signals of one shape.  The values of the     *)
(* encoder's activations are those of a learned network: the encoder is    *)
(* a function, so when the two signals are the same its activations are    *)
(* the same, and otherwise any values.                                     *)
(*   x    : the two signals of the call and their shape                    *)
(*   flow : the activations read by the loop and the positions of xs[1:]   *)
(*          that gave a term                                               *)
(*   out  : loss_g, loss_d                                                 *)

MaxDiscLayers == 2
MaxDiscLen == 2
DiscMultipliers == {1}
DiscFactors == {2}
ScoreVals == {-2, -1, 1}
FeatVals == {0, 1}
Signals == {"a", "b"}

InitDisc ==
    /\ pc = "new"
    /\ \E n \in 0..MaxDiscLayers :
       \E channels \in 1..MaxChannels, multipliers \in Lists(DiscMultipliers, n + 1),
          factors \in Lists(DiscFactors, n) :
          args = [in_channels |-> 1, out_channels |-> None,
                  channels |-> channels, multipliers |-> multipliers,
                  factors |-> factors, num_blocks |-> [i \in 1..n |-> 0],
                  patch_size |-> 1, resnet_groups |-> 1,
                  bottleneck_channels |-> None, bottleneck |-> <<>>,
                  use_loss |-> NoList, factor |-> 1, kernel_multiplier |-> 2]
    /\ mod = <<>>
    /\ x = <<>>
    /\ flow = <<>>
    /\ out = <<>>
    /\ info = EmptyDict
    /\ err = "none"

\* The values a [b, c, t] activation can have after chunk(chunks=2, dim=1)
ActsOf(t) ==
    [score : [1..ScoreElements(t) -> ScoreVals], feat : [1..FeatElements(t) -> FeatVals]]

\* The values of the activations at the enabled positions: a function from
\* the positions to the chunks
ActsAt(enabled, xs) ==
    {acts \in [{enabled[k] : k \in 1..Len(enabled)} ->
                  UNION {ActsOf(xs[enabled[k]]) : k \in 1..Len(enabled)}] :
        \A k \in 1..Len(enabled) : acts[enabled[k]] \in ActsOf(xs[enabled[k]])}

DiscReturned(true, fake, input, acts_true, acts_fake, res) ==
    /\ x' = [true |-> true, fake |-> fake, shape |-> input]
    /\ IF res.error = "none"
       THEN /\ pc' = "done"
            /\ out' = [loss_g |-> res.loss_g, loss_d |-> res.loss_d]
            /\ info' = res.info
            /\ flow' = [acts_true |-> acts_true, acts_fake |-> acts_fake,
                        terms |-> res.terms]
            /\ err' = err
       ELSE /\ pc' = "error"
            /\ err' = res.error
            /\ UNCHANGED <<out, info, flow>>

\* The loop of Discriminator1d.forward over xs_true = info_true["xs"][1:] and
\* xs_fake = info_fake["xs"][1:]
DiscLoop(true, fake, input, enabled, xs_true, xs_fake) ==
    IF DiscriminatorLoopError(enabled, xs_true, xs_fake) # "none"
    THEN DiscReturned(true, fake, input, <<>>, <<>>,
                      Discriminator1dLoop(enabled, xs_true, xs_fake, <<>>, <<>>))
    ELSE \E acts_true \in ActsAt(enabled, xs_true) :
         \E acts_fake \in (IF true = fake THEN {acts_true} ELSE ActsAt(enabled, xs_fake)) :
            DiscReturned(true, fake, input, acts_true, acts_fake,
                         Discriminator1dLoop(enabled, xs_true, xs_fake,
                                             acts_true, acts_fake))

DiscEncoded(true, fake, input, enc_true, enc_fake) ==
    IF enc_true.error # "none"
    THEN DiscReturned(true, fake, input, <<>>, <<>>, DiscriminatorFailed(enc_true.error))
    ELSE DiscLoop(true, fake, input,
                  Enabled(mod.use_loss, Tail(enc_true.info[<<"xs">>]),
                          Tail(enc_fake.info[<<"xs">>])),
                  Tail(enc_true.info[<<"xs">>]), Tail(enc_fake.info[<<"xs">>]))

\* loss_g, loss_d, info = discriminator(true, fake, with_info=True)
DiscriminatorForward ==
    /\ pc = "ready"
    /\ mod.kind = "Discriminator1d"
    /\ \E true \in Signals, fake \in Signals, t \in 1..MaxDiscLen :
       \E enc \in {Encoder1dForward(Encoder1d(EncoderArgs(args)),
                                    Tensor(1, args.in_channels, t), TRUE)} :
          DiscEncoded(true, fake, Tensor(1, args.in_channels, t), enc, enc)
    /\ UNCHANGED <<args, mod>>

NextDisc == ConstructDiscriminator \/ DiscriminatorForward

SpecDisc == InitDisc /\ [][NextDisc]_vars

----------------------------------------------------------------------------
(* Claims checked under SpecDisc *)

DiscDone == pc = "done" /\ mod.kind = "Discriminator1d"

\* Every score the loop read lies between the two targets.
ScoresWithinTargets ==
    \A i \in DOMAIN flow.acts_true :
       \A e \in 1..Len(flow.acts_true[i].score) : flow.acts_true[i].score[e] \in -1..1

\* relu(1 - s) + relu(1 + s) for a real score s at +1 and a fake score at -1
HingeAtTargets == Frac(Relu(1 - 1) + Relu(1 + (0 - 1)), 1)

\* C7 as claimed: called with true == fake, loss_d is the value of the hinge
\* term with the real scores at +1 and the fake scores at -1.
C7_Original == (DiscDone /\ x.true = x.fake) => out.loss_d = HingeAtTargets

\* C7 as amended: called with true == fake, every score is a real and a
\* fake score at once, every hinge term relu(1 - s) + relu(1 + s) is at
\* least 2, and so is loss_d: it is exactly 2 when every score read lies
\* in [-1, 1] and larger otherwise, never the hinge's minimum 0; the feature
\* term of loss_g is 0, loss_g being minus the mean of the stage scores.
C7_SameInputLoss ==
    (DiscDone /\ x.true = x.fake) =>
        /\ FracLeq(Frac(2, 1), out.loss_d)
        /\ (out.loss_d = Frac(2, 1)) <=> ScoresWithinTargets
        /\ out.loss_d # HingeAtTargets
        /\ out.loss_g = FracSub(Frac(0, 1), StackMean(info.scores_fake))

C7_Witness ==
    /\ DiscDone
    /\ x.true = x.fake
    /\ x.shape.t = 2
    /\ flow.terms = <<1, 2>>
    /\ flow.acts_true[1].score = <<-2, 1>>
    /\ flow.acts_true[2].score = <<1>>
    /\ out.loss_d = Frac(9, 4)

\* C8 as claimed: with the default mask every recorded activation other
\* than the raw input (the Patcher output, every downsample stage's output,
\* the last one included, and the projection output: positions
\* 1..num_layers + 2 of xs[1:]) gives one term to loss_g and one to loss_d.
C8_Original ==
    (DiscDone /\ args.use_loss = NoList) =>
        flow.terms = [i \in 1..(Len(args.multipliers) - 1 + 2) |-> i]

\* C8 as the code has it: zip stops after len(use_loss) = num_layers
\* positions, so exactly the enabled ones among the first num_layers
\* positions of xs[1:] give a term, and the losses are the means of these.
C8_ZipTruncates ==
    DiscDone =>
        /\ \A i \in 1..(Len(args.multipliers) - 1 + 2) :
              (\E k \in 1..Len(flow.terms) : flow.terms[k] = i)
                 <=> (i <= Len(args.multipliers) - 1 /\ mod.use_loss[i])
        /\ out.loss_d = StackMean([k \in 1..Len(flow.terms) |->
                            StageLossD(flow.acts_true[flow.terms[k]],
                                       flow.acts_fake[flow.terms[k]])])
        /\ out.loss_g = StackMean([k \in 1..Len(flow.terms) |->
                            StageLossG(flow.acts_true[flow.terms[k]],
                                       flow.acts_fake[flow.terms[k]])])

C8_Witness ==
    /\ DiscDone
    /\ args.use_loss = NoList
    /\ Len(args.multipliers) = 2
    /\ mod.use_loss = <<TRUE>>
    /\ flow.terms = <<1>>

\* A mask was given, it has one entry per stage and every entry is False.
AllFalseMask ==
    /\ args.use_loss # NoList
    /\ Len(args.use_loss[1]) = Len(args.multipliers) - 1
    /\ \A i \in 1..Len(args.use_loss[1]) : ~args.use_loss[1][i]

\* C14: a Discriminator1d given a use_loss mask of the right length whose
\* entries are all False is accepted by the constructor, and every forward
\* call on it raises (torch.stack of an empty list) instead of returning
\* losses; a forward call that returns losses ran with at least one True
\* mask entry.
C14_AllFalseMaskFails ==
    /\ (AllFalseMask /\ pc # "new") =>
          /\ pc \in {"ready", "error"}
          /\ mod.kind = "Discriminator1d"
          /\ mod.use_loss = args.use_loss[1]
          /\ pc = "error" => err = "RuntimeError"
    /\ DiscDone =>
          /\ \E i \in 1..Len(mod.use_loss) : mod.use_loss[i]
          /\ flow.terms # <<>>

C14_Witness ==
    /\ pc = "error"
    /\ err = "RuntimeError"
    /\ mod.kind = "Discriminator1d"
    /\ AllFalseMask
    /\ mod.use_loss = <<FALSE, FALSE>>
    /\ x.shape.t = 2

----------------------------------------------------------------------------
(* Specification SpecBottleneck: a program that holds a NoiserBottleneck   *)
(* and a VariationalBottleneck, switches them between training and         *)
(* evaluation mode, seeds torch's default random generator and calls       *)
(* their forward on one-element tensors.  Values are fixed-point numbers   *)
(* in thousandths; tanh and exp are tabulated on the values that occur.    *)
(*   args : sigma, and the weights of the 1x1 convolution to_mean_and_std  *)
(*   mod  : the training flag of the modules                               *)
(*   flow : rng, the state of torch's default generator (the seed it was   *)
(*          last given and the number of values drawn since), and calls,   *)
(*          one record per forward call made so far                        *)

MaxCalls == 3
MaxSeed == 1
MaxSigma == 2
InputVals == {-1000, 1000}
MeanWeights == {1}
StdWeights == {1, 20}

\* torch.tanh, in thousandths (float32 tanh(20.0) is exactly 1.0)
Tanh(v) ==
    CASE v <= -20000 -> -1000
      [] v = -1000 -> -762
      [] v = 0 -> 0
      [] v = 1000 -> 762
      [] v >= 20000 -> 1000

\* torch.exp, in thousandths
Exp(v) ==
    CASE v = 0 -> 1000
      [] v = 119 -> 1126
      [] v = 238 -> 1269
      [] v = 500 -> 1649
      [] v = 881 -> 2413
      [] v = 1000 -> 2718
      [] v = 1762 -> 5824
      [] v = 2000 -> 7389

\* The values torch's default generator gives, in whole units: the k-th
\* value drawn after torch.manual_seed(seed).
NoiseStream == <<1, -2, 0, 2, -1>>

\* torch.randn_like(t) of a one-element t, with the generator in state rng
Randn(rng) == NoiseStream[((2 * rng.seed + rng.pos) % Len(NoiseStream)) + 1]

AdvancedNot(rng) == rng

\* The state of the generator after one value was drawn
Advanced(rng) == [rng EXCEPT !.pos = @ + 1]

\* std = torch.exp(0.5 * logvar); eps = torch.randn_like(std); mean + std * eps
gaussian_sample(mean, logvar, rng) == mean + Exp(logvar \div 2) * Randn(rng)

\* mean**2 + logvar.exp() - logvar - 1, reduced to its mean
kl_loss(mean, logvar) == ((mean * mean) \div 1000) + Exp(logvar) - logvar - 1000

\* self.to_mean_and_std(x).chunk(chunks=2, dim=1), a 1x1 convolution with
\* the weights w (bias 0)
ToMeanAndStd(w, v) == [mean |-> w.mean * v, std |-> w.std * v]

\* VariationalBottleneck.forward(x, with_info=True) on the projection ms
VariationalValues(ms, loss_weight, rng) ==
    [out |-> gaussian_sample(Tanh(ms.mean), Tanh(ms.std) + 1000, rng),
     info |-> [key \in {<<"variational_kl_loss">>, <<"variational_mean">>,
                        <<"variational_std">>} |->
                 IF key = <<"variational_mean">> THEN Tanh(ms.mean)
                 ELSE IF key = <<"variational_std">> THEN Tanh(ms.std) + 1000
                 ELSE kl_loss(Tanh(ms.mean), Tanh(ms.std) + 1000) * loss_weight],
     rng |-> Advanced(rng)]

NoiserValuesAnyMode(training, sigma, v, rng) ==
    [out |-> Randn(rng) * 1000 * sigma + v, info |-> EmptyDict, rng |-> Advanced(rng)]

\* NoiserBottleneck.forward(x, with_info=True)
NoiserValues(training, sigma, v, rng) ==
    IF training
    THEN [out |-> Randn(rng) * 1000 * sigma + v, info |-> EmptyDict, rng |-> Advanced(rng)]
    ELSE [out |-> v, info |-> EmptyDict, rng |-> rng]

InitBottleneck ==
    /\ pc = "ready"
    /\ args \in [sigma : 1..MaxSigma, weights : [mean : MeanWeights, std : StdWeights]]
    /\ mod = [training |-> TRUE]
    /\ flow = [rng |-> [seed |-> 0, pos |-> 0], calls |-> <<>>]
    /\ x = <<>>
    /\ out = <<>>
    /\ info = EmptyDict
    /\ err = "none"

\* module.train()
Train ==
    /\ pc = "ready"
    /\ mod' = [mod EXCEPT !.training = TRUE]
    /\ UNCHANGED <<pc, args, x, flow, out, info, err>>

\* module.eval()
Eval ==
    /\ pc = "ready"
    /\ mod' = [mod EXCEPT !.training = FALSE]
    /\ UNCHANGED <<pc, args, x, flow, out, info, err>>

\* torch.manual_seed(seed), the caller's way to fix the random source
ManualSeed ==
    /\ pc = "ready"
    /\ \E seed \in 0..MaxSeed : flow' = [flow EXCEPT !.rng = [seed |-> seed, pos |-> 0]]
    /\ UNCHANGED <<pc, args, mod, x, out, info, err>>

\* y, info = module(x, with_info=True) returned res
Called(module, v, res) ==
    /\ x' = v
    /\ out' = res.out
    /\ info' = res.info
    /\ flow' = [rng |-> res.rng,
                calls |-> Append(flow.calls,
                                 [module |-> module, training |-> mod.training, x |-> v,
                                  rng |-> flow.rng, rng_after |-> res.rng,
                                  out |-> res.out, info |-> res.info])]
    /\ UNCHANGED <<pc, args, mod, err>>

NoiserCall ==
    /\ pc = "ready"
    /\ Len(flow.calls) < MaxCalls
    /\ \E v \in InputVals :
          Called("noiser", v, NoiserValues(mod.training, args.sigma, v, flow.rng))

VariationalCall ==
    /\ pc = "ready"
    /\ Len(flow.calls) < MaxCalls
    /\ \E v \in InputVals :
          Called("variational", v,
                 VariationalValues(ToMeanAndStd(args.weights, v), 1, flow.rng))

NextBottleneck ==
    \/ Train
    \/ Eval
    \/ ManualSeed
    \/ NoiserCall
    \/ VariationalCall

SpecBottleneck == InitBottleneck /\ [][NextBottleneck]_vars

----------------------------------------------------------------------------
(* Claims checked under SpecBottleneck *)

Calls(module) == {i \in 1..Len(flow.calls) : flow.calls[i].module = module}

\* C11 as claimed: VariationalBottleneck.forward returns mean + std * eps,
\* std being the value reported as variational_std and eps the value
\* drawn, so that the output is the mean where std = 0.
C11_Original ==
    \A i \in Calls("variational") :
       /\ flow.calls[i].out
             = flow.calls[i].info[<<"variational_mean">>]
                  + (flow.calls[i].info[<<"variational_std">>] * Randn(flow.calls[i].rng))
       /\ flow.calls[i].info[<<"variational_std">>] = 0
             => flow.calls[i].out = flow.calls[i].info[<<"variational_mean">>]

\* C11 as the code has it: the value reported as variational_std is handed
\* to gaussian_sample as logvar, and the noise is scaled by
\* exp(0.5 * std), a factor between 1 and e: the output is
\* mean + exp(0.5 * std) * eps, and mean + eps where std = 0.
C11_SampleScaledByExp ==
    \A i \in Calls("variational") :
       /\ flow.calls[i].info[<<"variational_mean">>]
             = Tanh(args.weights.mean * flow.calls[i].x)
       /\ flow.calls[i].info[<<"variational_std">>]
             = Tanh(args.weights.std * flow.calls[i].x) + 1000
       /\ flow.calls[i].out
             = flow.calls[i].info[<<"variational_mean">>]
                  + (Exp(flow.calls[i].info[<<"variational_std">>] \div 2)
                        * Randn(flow.calls[i].rng))
       /\ flow.calls[i].info[<<"variational_std">>] = 0
             => flow.calls[i].out
                   = flow.calls[i].info[<<"variational_mean">>]
                        + (1000 * Randn(flow.calls[i].rng))

C11_Witness ==
    /\ Len(flow.calls) = 1
    /\ flow.calls[1].module = "variational"
    /\ flow.calls[1].info[<<"variational_std">>] = 0
    /\ flow.calls[1].info[<<"variational_mean">>] = -762
    /\ Randn(flow.calls[1].rng) = 1
    /\ flow.calls[1].out = 238

\* C12: after any sequence of train() / eval() switches and forward calls,
\* a NoiserBottleneck.forward call made in evaluation mode returns its
\* input unchanged (and draws nothing), a call made in training mode
\* returns x + sigma * noise, the info mapping is empty in both modes, and
\* the result is decided by the mode at the time of the call: the calls
\* made before change nothing but the noise value drawn.
C12_NoiserModes ==
    \A i \in Calls("noiser") :
       /\ ~flow.calls[i].training =>
             /\ flow.calls[i].out = flow.calls[i].x
             /\ flow.calls[i].rng_after = flow.calls[i].rng
       /\ flow.calls[i].training =>
             flow.calls[i].out
                = flow.calls[i].x + (args.sigma * 1000 * Randn(flow.calls[i].rng))
       /\ flow.calls[i].info = EmptyDict
       /\ \A j \in Calls("noiser") :
             (/\ flow.calls[j].training = flow.calls[i].training
              /\ flow.calls[j].x = flow.calls[i].x
              /\ (flow.calls[i].training => flow.calls[j].rng = flow.calls[i].rng))
                => flow.calls[j].out = flow.calls[i].out

C12_Witness ==
    /\ Len(flow.calls) = 3
    /\ Calls("noiser") = {1, 2, 3}
    /\ <<flow.calls[1].training, flow.calls[2].training, flow.calls[3].training>>
          = <<TRUE, FALSE, TRUE>>
    /\ args.sigma = 2
    /\ <<flow.calls[1].x, flow.calls[1].out>> = <<1000, 3000>>
    /\ <<flow.calls[2].x, flow.calls[2].out>> = <<1000, 1000>>
    /\ <<flow.calls[3].x, flow.calls[3].out>> = <<1000, -3000>>

\* A call that draws: every variational call, a noiser call in training mode.
Samples(call) == call.module = "variational" \/ call.training

SameCall(a, b) == a.module = b.module /\ a.training = b.training /\ a.x = b.x

\* C13 as claimed: no global random state is read or advanced by a forward
\* call, and two calls given the same input and the same random source of
\* the caller (the seed the caller gave) return the same output, whatever
\* sampling calls ran in between.
C13_Original ==
    /\ \A i \in 1..Len(flow.calls) : flow.calls[i].rng_after = flow.calls[i].rng
    /\ \A i, j \in 1..Len(flow.calls) :
          (SameCall(flow.calls[i], flow.calls[j])
              /\ flow.calls[i].rng.seed = flow.calls[j].rng.seed)
             => flow.calls[i].out = flow.calls[j].out

\* C13 as amended: forward takes no generator; every call that samples
\* reads torch's global default generator and advances it by the values it
\* draws, and the next call starts from the state the previous one left
\* unless the generator was seeded again.
\* Two calls given the same input return the same output when the global
\* generator is in the same state at both (same seed and nothing drawn in
\* between); a sampling call in between changes the draw.
C13_GlobalGenerator ==
    /\ \A i \in 1..Len(flow.calls) :
          /\ Samples(flow.calls[i]) =>
                /\ flow.calls[i].rng_after.seed = flow.calls[i].rng.seed
                /\ flow.calls[i].rng_after.pos = flow.calls[i].rng.pos + 1
          /\ ~Samples(flow.calls[i]) => flow.calls[i].rng_after = flow.calls[i].rng
          /\ (i < Len(flow.calls) /\ flow.calls[i + 1].rng.pos > 0)
                => flow.calls[i + 1].rng = flow.calls[i].rng_after
    /\ \A i, j \in 1..Len(flow.calls) :
          (SameCall(flow.calls[i], flow.calls[j]) /\ flow.calls[i].rng = flow.calls[j].rng)
             => flow.calls[i].out = flow.calls[j].out
    /\ flow.rng = IF flow.calls = <<>> \/ flow.rng.pos = 0 THEN flow.rng
                  ELSE Last(flow.calls).rng_after

C13_Witness ==
    /\ Len(flow.calls) = 3
    /\ SameCall(flow.calls[1], flow.calls[3])
    /\ flow.calls[1].module = "noiser"
    /\ flow.calls[1].training
    /\ flow.calls[2].module = "variational"
    /\ flow.calls[1].rng = [seed |-> 1, pos |-> 0]
    /\ flow.calls[3].rng = [seed |-> 1, pos |-> 1]
    /\ flow.calls[1].out # flow.calls[3].out

====
